---- MODULE Spec2Model ----
(***************************************************************************)
(* Verification model of quadpy's Gauss-Kronrod core:                      *)
(*   src/quadpy/line_segment/_gauss_kronrod.py                             *)
(*     gauss_kronrod, _r_kronrod, _gauss_kronrod_integrate                 *)
(*                                                                         *)
(* numpy float64 values are modelled by exact rational arithmetic extended *)
(* with the IEEE-754 special values (signed zeros, +inf, -inf, nan), so a  *)
(* division by zero yields inf or nan as numpy does (a RuntimeWarning, not *)
(* an exception).  Rounding is not modelled.                               *)
(*                                                                         *)
(* A value is a pair <<num, den>>:                                         *)
(*    den > 0, num # 0, gcd = 1   the finite non-zero rational num/den     *)
(*    <<0, 1>>, <<0, -1>>         +0.0 and -0.0                            *)
(*    <<1, 0>>, <<-1, 0>>         +inf and -inf                            *)
(*    <<0, 0>>                    nan                                      *)
(* Python arrays are functions on 0 .. len-1.                              *)
(***************************************************************************)
EXTENDS Integers, Sequences, FiniteSets, TLC

\* ------------------------------------------------------------------ bounds
\* orders n in -NegN .. MaxN are tried on _r_kronrod
MaxN == 4
NegN == 2
\* orders n in 1 .. MaxRuleN are tried on gauss_kronrod
MaxRuleN == 2
\* orders k in 1 .. MaxK are tried on _gauss_kronrod_integrate
MaxK == 2
\* input lengths differ from ceil(3n/2)+1 by at most LenSlack
LenSlack == 1
\* the input families: a0[i] = c + d * (i mod 2), b0[i] = c + d * i
ACoefs == {0, 1}
ASteps == {0, 1}
BCoefs == {0, 1, 2}
BSteps == {0, 1}

\* ------------------------------------------------------- float64 arithmetic
Abs(i) == IF i < 0 THEN -i ELSE i
Sgn(i) == IF i < 0 THEN -1 ELSE IF i > 0 THEN 1 ELSE 0

RECURSIVE Gcd(_, _)
Gcd(i, j) == IF j = 0 THEN i ELSE Gcd(j, i % j)

NaN == <<0, 0>>
Zero == <<0, 1>>
NegZero == <<0, -1>>
One == <<1, 1>>
Inf == <<1, 0>>

IsNaN(v) == v = NaN
IsInf(v) == v[2] = 0 /\ v[1] # 0
IsZero(v) == v[1] = 0 /\ v[2] # 0
IsFinite(v) == v[2] # 0
\* the sign bit as +1 / -1 (0 for nan)
SignOf(v) == IF v[1] # 0 THEN Sgn(v[1]) ELSE v[2]

\* the value num/den of two integers, den # 0, num # 0, in lowest terms
Norm(num, den) ==
    LET g == Gcd(Abs(num), Abs(den))
    IN  <<(Sgn(den) * num) \div g, Abs(den) \div g>>

\* (p / q) * (r / d) for integers p, r # 0 and q, d > 0, cancelled before multiplying
Ratio(p, q, r, d) ==
    LET g1 == Gcd(Abs(p), q)
        g2 == Gcd(Abs(r), d)
    IN  <<(p \div g1) * (r \div g2), (d \div g2) * (q \div g1)>>

Flt(i) == IF i = 0 THEN Zero ELSE <<i, 1>>
Frac(i, j) == IF i = 0 THEN Zero ELSE Norm(i, j)

Neg(v) == IF v[1] = 0 THEN <<0, -v[2]>> ELSE <<-v[1], v[2]>>

Add(v, u) ==
    IF IsNaN(v) \/ IsNaN(u) THEN NaN
    ELSE IF IsInf(v) /\ IsInf(u) THEN (IF v = u THEN v ELSE NaN)
    ELSE IF IsInf(v) THEN v
    ELSE IF IsInf(u) THEN u
    ELSE IF IsZero(v) /\ IsZero(u) THEN (IF v = NegZero /\ u = NegZero THEN NegZero ELSE Zero)
    ELSE IF IsZero(v) THEN u
    ELSE IF IsZero(u) THEN v
    ELSE LET g == Gcd(v[2], u[2])
             num == v[1] * (u[2] \div g) + u[1] * (v[2] \div g)
         IN  IF num = 0 THEN Zero ELSE Norm(num, (v[2] \div g) * u[2])

Sub(v, u) == Add(v, Neg(u))

Mul(v, u) ==
    IF IsNaN(v) \/ IsNaN(u) THEN NaN
    ELSE IF IsInf(v) \/ IsInf(u)
         THEN (IF IsZero(v) \/ IsZero(u) THEN NaN ELSE <<SignOf(v) * SignOf(u), 0>>)
    ELSE IF IsZero(v) \/ IsZero(u) THEN <<0, SignOf(v) * SignOf(u)>>
    ELSE Ratio(v[1], u[2], u[1], v[2])

Div(v, u) ==
    IF IsNaN(v) \/ IsNaN(u) THEN NaN
    ELSE IF IsZero(u)
         THEN (IF IsZero(v) THEN NaN ELSE <<SignOf(v) * SignOf(u), 0>>)
    ELSE IF IsInf(u)
         THEN (IF IsInf(v) THEN NaN ELSE <<0, SignOf(v) * SignOf(u)>>)
    ELSE IF IsInf(v) THEN <<SignOf(v) * SignOf(u), 0>>
    ELSE IF IsZero(v) THEN <<0, SignOf(v) * SignOf(u)>>
    ELSE Ratio(v[1], Abs(u[1]), u[2] * Sgn(u[1]), v[2])

\* v < u as float64 compares (false when either is nan; -0.0 = +0.0)
Less(v, u) ==
    /\ ~IsNaN(v) /\ ~IsNaN(u)
    /\ IF IsInf(v) \/ IsInf(u)
       THEN (v = Neg(Inf) /\ u # Neg(Inf)) \/ (u = Inf /\ v # Inf)
       ELSE v[1] * Abs(u[2]) < u[1] * Abs(v[2])

\* v == u as float64 compares
NumEq(v, u) == ~IsNaN(v) /\ ~IsNaN(u) /\ ~Less(v, u) /\ ~Less(u, v)

\* ------------------------------------------------------------------ arrays
ALen(arr) == Cardinality(DOMAIN arr)
Zeros(len) == [i \in 0 .. len - 1 |-> Zero]
\* Python / numpy element indexing: -len .. len-1 is valid, negatives wrap
Valid(len, i) == -len <= i /\ i < len
Wrap(len, i) == IF i < 0 THEN i + len ELSE i
Get(arr, i) == arr[Wrap(ALen(arr), i)]
Put(arr, i, v) == [arr EXCEPT ![Wrap(ALen(arr), i)] = v]
SeqMax(S) == CHOOSE i \in S : \A j \in S : j <= i
\* arr[idx] = vals for an index array idx (a repeated index keeps the last value)
Scatter(arr, idx, vals) ==
    [p \in DOMAIN arr |->
        LET hits == {i \in DOMAIN idx : Wrap(ALen(arr), idx[i]) = p}
        IN  IF hits = {} THEN arr[p] ELSE vals[SeqMax(hits)]]
\* the number of entries of arr[:k]: the stop clamps to the length, a negative
\* stop counts from the end
SliceLen(arr, k) ==
    IF k < 0 THEN (IF ALen(arr) + k < 0 THEN 0 ELSE ALen(arr) + k)
    ELSE IF k < ALen(arr) THEN k ELSE ALen(arr)
\* dst[:k] = src[:k] needs equally many entries on both sides, or one to broadcast
SliceFits(dst, src, k) ==
    SliceLen(src, k) = SliceLen(dst, k) \/ SliceLen(src, k) = 1
CopyPrefix(dst, src, k) ==
    [i \in DOMAIN dst |->
        IF i < SliceLen(dst, k)
        THEN (IF SliceLen(src, k) = 1 THEN src[0] ELSE src[i])
        ELSE dst[i]]
\* numpy.cumsum of a sequence: c[1] = x[1], c[i] = c[i-1] + x[i]
RECURSIVE CumSumAt(_, _)
CumSumAt(xs, i) == IF i = 1 THEN xs[1] ELSE Add(CumSumAt(xs, i - 1), xs[i])
CumSum(xs) == [i \in DOMAIN xs |-> CumSumAt(xs, i)]
\* numpy.arange(lo, hi + 1) and numpy.arange(hi, lo - 1, -1) as sequences
Ascending(lo, hi) == [i \in 1 .. (IF hi >= lo THEN hi - lo + 1 ELSE 0) |-> lo + i - 1]
Descending(hi, lo) == [i \in 1 .. (IF hi >= lo THEN hi - lo + 1 ELSE 0) |-> hi - i + 1]

\* int(math.floor(q / 2.0)), int(math.ceil(q / 2.0))
FloorHalf(q) == q \div 2
CeilHalf(q) == -((-q) \div 2)

VARIABLES
    pc,        \* position of the running call
    entry,     \* the function called from outside
    err,       \* "none" or the exception that ended the call
    n, a0, b0, \* arguments of _r_kronrod
    a, b, s, t, m,       \* locals of _r_kronrod
    aIdx, bIdx, stIdx,   \* history: every index used on a, b and on s, t so far
    aWr, bWr,            \* history: indices of a, b written after the initial copy
    emptyK,              \* history: some backward iteration had an empty k range
    length, degree,      \* locals of gauss_kronrod
    x, w, points, weights,
    order, f, intervals, \* arguments of _gauss_kronrod_integrate (order is its k)
    gk, gl,              \* the two rules: [points, weights]
    sp, fx_gk, fx_gl,    \* the sample points and the values of f on them
    fCalls,              \* history: the arguments of every call of f so far
    domain_shape, alpha, val_gauss_kronrod, val_gauss_legendr,
    I_tilde, error_estimate

vars == <<pc, entry, err, n, a0, b0, a, b, s, t, m, aIdx, bIdx, stIdx, aWr, bWr,
          emptyK, length, degree, x, w, points, weights,
          order, f, intervals, gk, gl, sp, fx_gk, fx_gl, fCalls, domain_shape, alpha,
          val_gauss_kronrod, val_gauss_legendr, I_tilde, error_estimate>>

rkVars == <<n, a0, b0, a, b, s, t, m, aIdx, bIdx, stIdx, aWr, bWr, emptyK>>
gkVars == <<length, degree, x, w, points, weights>>
giArgs == <<order, f, intervals, gk, gl>>
giVars == <<giArgs, sp, fx_gk, fx_gl, fCalls, domain_shape, alpha,
            val_gauss_kronrod, val_gauss_legendr, I_tilde, error_estimate>>

\* ------------------------------------------------------------- _r_kronrod
\* the length test with floor in place of ceil
RequiredLenFloor(nn) == FloorHalf(3 * nn) + 1
\* line 58-59: the required input length
RequiredLen(nn) == CeilHalf(3 * nn) + 1
\* line 64: number of entries of a0 copied into a
CopyLenA(nn) == FloorHalf(3 * nn) + 1
\* line 66: number of entries of b0 copied into b
CopyLenB(nn) == CeilHalf(3 * nn) + 1
\* line 61-62: length of a and b
OutLen(nn) == 2 * nn + 1
\* line 68-69: length of s and t
BufLen(nn) == FloorHalf(nn) + 2

\* index expressions of the forward pass, lines 72-77
FwdK0(mm) == FloorHalf(mm + 1)
\* the forward k range in ascending order
FwdKAscending(mm) == Ascending(0, FwdK0(mm))
FwdK(mm) == Descending(FwdK0(mm), 0)
\* an off-by-one upper index: k + n instead of k + n + 1
HiIdxOffByOne(k, nn) == k + nn
HiIdx(k, nn) == k + nn + 1
LIdx(k, mm) == mm - k
FwdDst(k) == k + 1
FwdPrev(k) == k

\* index expressions of the backward pass, lines 83-98
BwdK0(mm, nn) == mm + 1 - nn
BwdK1(mm) == FloorHalf(mm - 1)
BwdK(mm, nn) == Ascending(BwdK0(mm, nn), BwdK1(mm))
\* an off-by-one buffer index: n - L instead of n - 1 - L
BwdJOffByOne(k, mm, nn) == nn - LIdx(k, mm)
BwdJ(k, mm, nn) == nn - 1 - LIdx(k, mm)
BwdDst(j) == j + 1
BwdNext(j) == j + 2
NewK(mm) == FloorHalf(mm + 1)

Range(seq) == {seq[i] : i \in DOMAIN seq}

\* the indices one forward iteration uses on a and b, and on s and t
FwdIdxAB(mm, nn) == UNION {{HiIdx(k, nn), LIdx(k, mm)} : k \in Range(FwdK(mm))}
FwdIdxST(mm) == UNION {{FwdDst(k), FwdPrev(k)} : k \in Range(FwdK(mm))}

\* line 75-77: the right-hand side for one k
FwdTerm(k, aa, bb, ss, tt, mm, nn) ==
    Sub(Add(Mul(Sub(Get(aa, HiIdx(k, nn)), Get(aa, LIdx(k, mm))), Get(tt, FwdDst(k))),
            Mul(Get(bb, HiIdx(k, nn)), Get(ss, FwdPrev(k)))),
        Mul(Get(bb, LIdx(k, mm)), Get(ss, FwdDst(k))))

\* line 72-77: s after the whole-array assignment of one forward iteration
ForwardUpdate(aa, bb, ss, tt, mm, nn) ==
    LET ks == FwdK(mm)
        terms == [i \in DOMAIN ks |-> FwdTerm(ks[i], aa, bb, ss, tt, mm, nn)]
    IN  Scatter(ss, [i \in DOMAIN ks |-> FwdDst(ks[i])], CumSum(terms))

\* the indices one backward iteration uses on a and b, and on s and t
BwdJs(mm, nn) == [i \in DOMAIN BwdK(mm, nn) |-> BwdJ(BwdK(mm, nn)[i], mm, nn)]
BwdIdxAB(mm, nn) ==
    UNION {{HiIdx(k, nn), LIdx(k, mm)} : k \in Range(BwdK(mm, nn))}
        \cup {HiIdx(NewK(mm), nn)} \cup (IF mm % 2 = 0 THEN {NewK(mm)} ELSE {})
BwdIdxST(mm, nn) == UNION {{BwdDst(j), BwdNext(j)} : j \in Range(BwdJs(mm, nn))}

\* line 88-92: the right-hand side for one k
BwdTerm(k, aa, bb, ss, tt, mm, nn) ==
    LET j == BwdJ(k, mm, nn)
    IN  Add(Sub(Mul(Neg(Sub(Get(aa, HiIdx(k, nn)), Get(aa, LIdx(k, mm)))), Get(tt, BwdDst(j))),
                Mul(Get(bb, HiIdx(k, nn)), Get(ss, BwdDst(j)))),
            Mul(Get(bb, LIdx(k, mm)), Get(ss, BwdNext(j))))

\* line 83-92: s after the whole-array assignment of one backward iteration
BackwardUpdate(aa, bb, ss, tt, mm, nn) ==
    LET ks == BwdK(mm, nn)
        terms == [i \in DOMAIN ks |-> BwdTerm(ks[i], aa, bb, ss, tt, mm, nn)]
    IN  Scatter(ss, [i \in DOMAIN ks |-> BwdDst(BwdJ(ks[i], mm, nn))], CumSum(terms))

\* line 96: the new a[k + n + 1] of an even m; ss is s after the update, j = j[-1]
NewA(aa, bb, ss, tt, j, mm, nn) ==
    Add(Get(aa, NewK(mm)),
        Div(Sub(Get(ss, BwdDst(j)), Mul(Get(bb, HiIdx(NewK(mm), nn)), Get(ss, BwdNext(j)))),
            Get(tt, BwdNext(j))))

\* line 98: the new b[k + n + 1] of an odd m
NewB(ss, j) == Div(Get(ss, BwdDst(j)), Get(ss, BwdNext(j)))

\* line 101: the last entry a[2n]
LastA(aa, bb, ss, tt, nn) ==
    Sub(Get(aa, nn - 1), Div(Mul(Get(bb, 2 * nn), Get(ss, 1)), Get(tt, 1)))
LastIdx(nn) == 2 * nn

AllValid(len, S) == \A i \in S : Valid(len, i)

Raise(e) ==
    /\ pc' = "raised"
    /\ err' = e

\* lines 57-70: the assertions, the allocation of a, b, s, t and the initial copy
RK_Enter ==
    /\ UNCHANGED giVars
    /\ pc = "rk_enter"
    /\ UNCHANGED <<entry, n, a0, b0, m, aWr, emptyK, gkVars>>
    /\ IF ALen(a0) # RequiredLen(n) \/ ALen(b0) # RequiredLen(n)
       THEN Raise("AssertionError") /\ UNCHANGED <<a, b, s, t, aIdx, bIdx, stIdx, bWr>>
       ELSE IF OutLen(n) < 0
       THEN Raise("ValueError") /\ UNCHANGED <<a, b, s, t, aIdx, bIdx, stIdx, bWr>>
       ELSE LET a1 == CopyPrefix(Zeros(OutLen(n)), a0, CopyLenA(n))
                b1 == CopyPrefix(Zeros(OutLen(n)), b0, CopyLenB(n))
            IN  IF ~SliceFits(Zeros(OutLen(n)), a0, CopyLenA(n))
                   \/ ~SliceFits(Zeros(OutLen(n)), b0, CopyLenB(n))
                THEN Raise("ValueError") /\ UNCHANGED <<a, b, s, t, aIdx, bIdx, stIdx, bWr>>
                ELSE /\ a' = a1
                     /\ b' = b1
                     /\ bIdx' = {n + 1}
                     /\ stIdx' = {1}
                     /\ UNCHANGED <<aIdx, bWr>>
                     /\ IF BufLen(n) < 0
                        THEN Raise("ValueError") /\ UNCHANGED <<s, t>>
                        ELSE /\ s' = Zeros(BufLen(n))
                             /\ IF Valid(ALen(b1), n + 1) /\ Valid(BufLen(n), 1)
                                THEN /\ t' = Put(Zeros(BufLen(n)), 1, Get(b1, n + 1))
                                     /\ pc' = "rk_forward"
                                     /\ err' = err
                                ELSE /\ t' = Zeros(BufLen(n))
                                     /\ Raise("IndexError")

\* lines 71-78: one iteration of the forward loop, or its end
RK_Forward ==
    /\ UNCHANGED giVars
    /\ pc = "rk_forward"
    /\ m < n - 1
    /\ UNCHANGED <<entry, n, a0, b0, a, b, aWr, bWr, emptyK, gkVars>>
    /\ aIdx' = aIdx \cup FwdIdxAB(m, n)
    /\ bIdx' = bIdx \cup FwdIdxAB(m, n)
    /\ stIdx' = stIdx \cup FwdIdxST(m)
    /\ IF AllValid(ALen(a), FwdIdxAB(m, n)) /\ AllValid(ALen(s), FwdIdxST(m))
       THEN /\ s' = t
            /\ t' = ForwardUpdate(a, b, s, t, m, n)
            /\ m' = m + 1
            /\ UNCHANGED <<pc, err>>
       ELSE Raise("IndexError") /\ UNCHANGED <<s, t, m>>

\* lines 80-81: the shift s[1 : j + 1] = s[:j] between the passes
ShiftJ(nn) == FloorHalf(nn) + 1
Shifted(ss, j) == [i \in DOMAIN ss |-> IF 1 <= i /\ i <= j THEN ss[i - 1] ELSE ss[i]]
RK_Shift ==
    /\ UNCHANGED giVars
    /\ pc = "rk_forward"
    /\ m >= n - 1
    /\ UNCHANGED <<entry, err, n, a0, b0, a, b, t, aIdx, bIdx, aWr, bWr, emptyK, gkVars>>
    /\ s' = Shifted(s, ShiftJ(n))
    /\ stIdx' = stIdx \cup (0 .. ShiftJ(n))
    /\ m' = n - 1
    /\ pc' = "rk_backward"

\* lines 82-99: one iteration of the backward loop
RK_Backward ==
    /\ UNCHANGED giVars
    /\ pc = "rk_backward"
    /\ m < 2 * n - 2
    /\ UNCHANGED <<entry, n, a0, b0, gkVars>>
    /\ aIdx' = aIdx \cup BwdIdxAB(m, n)
    /\ bIdx' = bIdx \cup BwdIdxAB(m, n)
    /\ emptyK' = (emptyK \/ BwdK(m, n) = <<>>)
    /\ IF BwdK(m, n) = <<>>
       THEN /\ Raise("IndexError")
            /\ stIdx' = stIdx \cup BwdIdxST(m, n)
            /\ UNCHANGED <<a, b, s, t, m, aWr, bWr>>
       ELSE LET js == BwdJs(m, n)
                j == js[Len(js)]
                used == BwdIdxST(m, n) \cup {BwdDst(j), BwdNext(j)}
            IN  /\ stIdx' = stIdx \cup used
                /\ IF AllValid(ALen(a), BwdIdxAB(m, n)) /\ AllValid(ALen(s), used)
                   THEN LET s1 == BackwardUpdate(a, b, s, t, m, n)
                        IN  /\ IF m % 2 = 0
                               THEN /\ a' = Put(a, HiIdx(NewK(m), n), NewA(a, b, s1, t, j, m, n))
                                    /\ aWr' = aWr \cup {HiIdx(NewK(m), n)}
                                    /\ UNCHANGED <<b, bWr>>
                               ELSE /\ b' = Put(b, HiIdx(NewK(m), n), NewB(s1, j))
                                    /\ bWr' = bWr \cup {HiIdx(NewK(m), n)}
                                    /\ UNCHANGED <<a, aWr>>
                            /\ s' = t
                            /\ t' = s1
                            /\ m' = m + 1
                            /\ UNCHANGED <<pc, err>>
                   ELSE Raise("IndexError") /\ UNCHANGED <<a, b, s, t, m, aWr, bWr>>

\* lines 101-102: the last entry of a, and the return
RK_Final ==
    /\ UNCHANGED giVars
    /\ pc = "rk_backward"
    /\ m >= 2 * n - 2
    /\ UNCHANGED <<entry, n, a0, b0, b, s, t, m, bWr, emptyK, gkVars>>
    /\ aIdx' = aIdx \cup {LastIdx(n), n - 1}
    /\ bIdx' = bIdx \cup {LastIdx(n)}
    /\ stIdx' = stIdx \cup {1}
    /\ IF AllValid(ALen(a), {LastIdx(n), n - 1}) /\ Valid(ALen(s), 1)
       THEN /\ a' = Put(a, LastIdx(n), LastA(a, b, s, t, n))
            /\ aWr' = aWr \cup {LastIdx(n)}
            /\ pc' = IF entry = "gauss_kronrod" THEN "gk_scheme" ELSE "done"
            /\ err' = err
       ELSE Raise("IndexError") /\ UNCHANGED <<a, aWr>>

\* ----------------------------------------------------------- gauss_kronrod
\* line 40: the number of recurrence coefficients requested
Length(nn) == CeilHalf(3 * nn) + 1
\* line 41: the degree handed to LineSegmentScheme
Degree(len) == 2 * len + 1
\* lines 42-47: the monic Legendre recurrence coefficients (jacobi with a = b = 0):
\* alpha[k] = 0, beta[0] = 2, beta[k] = k^2 / (4 k^2 - 1)
JacobiAlpha(len) == [k \in 0 .. len - 1 |-> Zero]
JacobiBeta(len) == [k \in 0 .. len - 1 |-> IF k = 0 THEN Flt(2) ELSE Frac(k * k, 4 * k * k - 1)]

\* lines 40-48: up to the call of _r_kronrod
GK_Enter ==
    /\ UNCHANGED giVars
    /\ pc = "gk_enter"
    /\ length' = Length(n)
    /\ degree' = Degree(Length(n))
    /\ a0' = JacobiAlpha(Length(n))
    /\ b0' = JacobiBeta(Length(n))
    /\ pc' = "rk_enter"
    /\ UNCHANGED <<entry, err, n, a, b, s, t, m, aIdx, bIdx, stIdx, aWr, bWr, emptyK,
                   x, w, points, weights>>

\* line 49: scheme_from_rc returns one node and one weight per coefficient, the
\* nodes in the eigen-solver's order.  Nodes are drawn from XVals; the weight of the
\* i-th node is the distinct value (i + 1) / (len + 1).
XVals == {Flt(-1), Zero, Flt(1)}
SchemeNodes(aa) == [DOMAIN aa -> XVals]
SchemeWeights(aa) == [i \in DOMAIN aa |-> Frac(i + 1, ALen(aa) + 1)]

\* line 51: numpy.argsort(x): every index array that lists x in non-decreasing order
\* (the default sort is not stable: the order among equal entries is unspecified)
Minimal(xs, S) == {j \in S : \A l \in S : ~Less(xs[l], xs[j])}
RECURSIVE ArgSortsOf(_, _)
ArgSortsOf(xs, S) ==
    IF S = {} THEN {<<>>}
    ELSE UNION {{<<j>> \o q : q \in ArgSortsOf(xs, S \ {j})} : j \in Minimal(xs, S)}
ArgSort(xs) == {[k \in DOMAIN xs |-> q[k + 1]] : q \in ArgSortsOf(xs, DOMAIN xs)}
\* x[i] for an index array i
Take(arr, i) == [k \in DOMAIN i |-> Get(arr, i[k])]
\* the weights left in the eigen-solver's order
UnsortedWeights(ww, i) == ww
\* line 52-53
SortedPoints(xx, i) == Take(xx, i)
SortedWeights(ww, i) == Take(ww, i)

\* lines 49-54: the nodes and weights, sorted by node, and the returned scheme
GK_Finish ==
    /\ UNCHANGED giVars
    /\ pc = "gk_scheme"
    /\ \E xx \in SchemeNodes(a) :
          /\ x' = xx
          /\ w' = SchemeWeights(b)
          /\ \E i \in ArgSort(xx) :
                /\ points' = SortedPoints(xx, i)
                /\ weights' = SortedWeights(SchemeWeights(b), i)
    /\ pc' = "done"
    /\ UNCHANGED <<entry, err, rkVars, length, degree>>

\* ------------------------------------------------------------------ inputs
Orders == (0 - NegN) .. MaxN
Lengths(nn) == {l \in 0 .. (RequiredLen(MaxN) + LenSlack) :
                   Abs(l - RequiredLen(nn)) <= LenSlack}
\* input arrays of the given length: c, c + d, c, c + d, ... and c, c + d, c + 2d, ...
Alternating(len, c, d) == [i \in 0 .. len - 1 |-> Flt(c + d * (i % 2))]
Linear(len, c, d) == [i \in 0 .. len - 1 |-> Flt(c + d * i)]
AInputs(len) == {Alternating(len, c, d) : c \in ACoefs, d \in ASteps}
BInputs(len) == {Linear(len, c, d) : c \in BCoefs, d \in BSteps}

InitCommon ==
    /\ err = "none"
    /\ a = <<>> /\ b = <<>> /\ s = <<>> /\ t = <<>>
    /\ m = 0
    /\ aIdx = {} /\ bIdx = {} /\ stIdx = {} /\ aWr = {} /\ bWr = {}
    /\ emptyK = FALSE
    /\ length = 0 /\ degree = 0
    /\ x = <<>> /\ w = <<>> /\ points = <<>> /\ weights = <<>>

\* nothing of _gauss_kronrod_integrate is running
InitNoIntegrate ==
    /\ order = 0 /\ f = "none" /\ intervals = <<>>
    /\ gk = <<>> /\ gl = <<>>
    /\ sp = <<>> /\ fx_gk = <<>> /\ fx_gl = <<>>
    /\ fCalls = <<>>
    /\ domain_shape = <<>>
    /\ alpha = Zero /\ val_gauss_kronrod = Zero /\ val_gauss_legendr = Zero
    /\ I_tilde = Zero /\ error_estimate = <<>>

\* a call _r_kronrod(n, a0, b0)
InitRK ==
    /\ InitCommon
    /\ InitNoIntegrate
    /\ entry = "_r_kronrod"
    /\ pc = "rk_enter"
    /\ n \in Orders
    /\ \E la \in Lengths(n), lb \in Lengths(n) :
          /\ a0 \in AInputs(la)
          /\ b0 \in BInputs(lb)

\* a call gauss_kronrod(n) with the default a = b = 0
InitGK ==
    /\ InitCommon
    /\ InitNoIntegrate
    /\ entry = "gauss_kronrod"
    /\ pc = "gk_enter"
    /\ n \in 1 .. MaxRuleN
    /\ a0 = <<>>
    /\ b0 = <<>>

Init == InitRK \/ InitGK

Next ==
    \/ GK_Enter
    \/ GK_Finish
    \/ RK_Enter
    \/ RK_Forward
    \/ RK_Shift
    \/ RK_Backward
    \/ RK_Final

Spec == Init /\ [][Next]_vars

\* ------------------------------------------------ _gauss_kronrod_integrate
Half == Frac(1, 2)
\* abs / numpy.abs
AbsF(v) == IF SignOf(v) < 0 THEN Neg(v) ELSE v
\* numpy.sqrt, exact on the squares of rationals (all that a scalar interval yields)
ISqrt(i) == CHOOSE r \in 0 .. i : r * r = i
Sqrt(v) ==
    IF IsNaN(v) \/ IsZero(v) \/ v = Inf THEN v
    ELSE IF SignOf(v) < 0 THEN NaN
    ELSE <<ISqrt(v[1]), ISqrt(v[2])>>
\* dot(u, v) of two arrays of one length
RECURSIVE DotUpTo(_, _, _)
DotUpTo(u, v, i) ==
    IF i < 0 THEN Zero
    ELSE IF i = 0 THEN Mul(u[0], v[0])
    ELSE Add(DotUpTo(u, v, i - 1), Mul(u[i], v[i]))
Dot(u, v) == DotUpTo(u, v, ALen(u) - 1)

\* a value c * base^1.5: ** 1.5 leaves the rationals, so the power is kept as its
\* base unless it is exact (base 0, 1, inf or nan), where base is One and c the value
Plain(v) == [coef |-> v, base |-> One]
\* r ** 1.5
Pow15(r) ==
    IF IsNaN(r) THEN Plain(NaN)
    ELSE IF IsZero(r) THEN Plain(Zero)
    ELSE IF SignOf(r) < 0 THEN Plain(NaN)
    ELSE IF r = Inf \/ r = One THEN Plain(r)
    ELSE [coef |-> One, base |-> r]
\* numpy.minimum(1, p), which propagates nan
MinimumOne(p) ==
    IF IsNaN(p.coef) THEN p
    ELSE IF p.base = One THEN (IF Less(p.coef, One) THEN p ELSE Plain(One))
    ELSE IF Less(p.base, One) THEN p ELSE Plain(One)
\* v * p
Scale(v, p) ==
    IF p.base = One THEN Plain(Mul(v, p.coef))
    ELSE IF IsNaN(v) \/ IsZero(v) \/ IsInf(v) THEN Plain(Mul(v, One))
    ELSE [coef |-> Mul(v, p.coef), base |-> p.base]

\* the integrands tried: f(x) = 0, f(x) = 1, f(x) = x
FKinds == {"zero", "one", "x"}
Apply(fn, v) == IF fn = "zero" THEN Zero ELSE IF fn = "one" THEN One ELSE v
\* the interval end points tried
IVals == {Flt(-1), Zero, Flt(1)}

\* line 110: gauss_kronrod(k) returns 2k+1 nodes in ascending order with their
\* weights (C8); the nodes are taken as the symmetric grid j / (k + 1), the weights
\* from GKWVals (5/9, 8/9, 5/9 is the rule of k = 1)
GKWVals == {Frac(5, 9), Frac(8, 9)}
KronrodRules(kk) ==
    {[points |-> [i \in 0 .. 2 * kk |-> Frac(i - kk, kk + 1)], weights |-> ws] :
        ws \in [0 .. 2 * kk -> GKWVals]}
\* line 111: gauss_legendre(k) returns k weights (2 is the rule of k = 1; 1, 1 of k = 2)
GLWVals == {Flt(1), Flt(2)}
GaussRules(kk) == {[weights |-> ws] : ws \in [0 .. kk - 1 -> GLWVals]}

\* lines 113-115: the nodes mapped onto the interval
ScalePoints(pts, iv) ==
    [i \in DOMAIN pts |->
        Add(Mul(iv[1], Mul(Half, Sub(One, pts[i]))), Mul(iv[2], Mul(Half, Add(One, pts[i]))))]
\* lines 119-121: the shapes of a scalar interval and a scalar integrand
FindShapes == [domain_shape |-> <<>>, range_shape |-> <<>>, interval_set_shape |-> <<>>]
\* the subset with every second sample from offset 0
EvenSubset(arr) == [i \in 0 .. ((ALen(arr) + 1) \div 2) - 1 |-> arr[2 * i]]
\* line 123: fx_gk[..., 1::2]
OddSubset(arr) == [i \in 0 .. (ALen(arr) \div 2) - 1 |-> arr[2 * i + 1]]
\* the scale as half of the length
AlphaHalved(iv, dshape) == Mul(Half, Sqrt(Mul(Sub(iv[2], iv[1]), Sub(iv[2], iv[1]))))
\* lines 125-126: sqrt(sum(diff ** 2)) over the domain axes (none for a scalar interval)
AlphaOf(iv, dshape) == Sqrt(Mul(Sub(iv[2], iv[1]), Sub(iv[2], iv[1])))
\* lines 131-132
Estimate(al, fx, ws) == Mul(Mul(Half, al), Dot(fx, ws))
\* lines 147-149
Average(vk, al) == Div(vk, al)
FxAvgAbs(fx, avg) == [i \in DOMAIN fx |-> AbsF(Sub(fx[i], avg))]
\* lines 158-161
ErrorEstimate(it, vk, vg) ==
    Scale(it, MinimumOne(Pow15(Div(Mul(Flt(200), AbsF(Sub(vk, vg))), it))))

giResults == <<alpha, val_gauss_kronrod, val_gauss_legendr, I_tilde, error_estimate>>

\* lines 110-123: the two rules, the sample points, the call of f, the shapes and
\* the samples shared with the Gauss rule
GKI_Evaluate ==
    /\ pc = "gki_enter"
    /\ \E r \in KronrodRules(order), g \in GaussRules(order) :
          /\ gk' = r
          /\ gl' = g
          /\ sp' = ScalePoints(r.points, intervals)
    /\ fx_gk' = [i \in DOMAIN sp' |-> Apply(f, sp'[i])]
    /\ fCalls' = Append(fCalls, sp')
    /\ domain_shape' = FindShapes.domain_shape
    /\ fx_gl' = OddSubset(fx_gk')
    /\ pc' = "gki_integrate"
    /\ UNCHANGED <<entry, err, rkVars, gkVars, order, f, intervals, giResults>>

\* lines 125-135: the scale alpha and the two estimates
GKI_Integrate ==
    /\ pc = "gki_integrate"
    /\ alpha' = AlphaOf(intervals, domain_shape)
    /\ IF ALen(fx_gk) = ALen(gk.weights) /\ ALen(fx_gl) = ALen(gl.weights)
       THEN /\ val_gauss_kronrod' = Estimate(alpha', fx_gk, gk.weights)
            /\ val_gauss_legendr' = Estimate(alpha', fx_gl, gl.weights)
            /\ pc' = "gki_error"
            /\ err' = err
       ELSE /\ Raise("ValueError")
            /\ UNCHANGED <<val_gauss_kronrod, val_gauss_legendr>>
    /\ UNCHANGED <<entry, rkVars, gkVars, giArgs, sp, fx_gk, fx_gl, fCalls, domain_shape,
                   I_tilde, error_estimate>>

\* lines 147-171: the error estimate, and the return
GKI_Error ==
    /\ pc = "gki_error"
    /\ I_tilde' = Estimate(alpha, FxAvgAbs(fx_gk, Average(val_gauss_kronrod, alpha)), gk.weights)
    /\ error_estimate' = ErrorEstimate(I_tilde', val_gauss_kronrod, val_gauss_legendr)
    /\ pc' = "done"
    /\ UNCHANGED <<entry, err, rkVars, gkVars, giArgs, sp, fx_gk, fx_gl, fCalls,
                   domain_shape, alpha, val_gauss_kronrod, val_gauss_legendr>>

\* a call _gauss_kronrod_integrate(k, f, intervals) on one scalar interval
InitIntegrate ==
    /\ InitCommon
    /\ entry = "_gauss_kronrod_integrate"
    /\ pc = "gki_enter"
    /\ n = 0 /\ a0 = <<>> /\ b0 = <<>>
    /\ order \in 1 .. MaxK
    /\ f \in FKinds
    /\ intervals \in IVals \X IVals
    /\ gk = <<>> /\ gl = <<>>
    /\ sp = <<>> /\ fx_gk = <<>> /\ fx_gl = <<>>
    /\ fCalls = <<>>
    /\ domain_shape = <<>>
    /\ alpha = Zero /\ val_gauss_kronrod = Zero /\ val_gauss_legendr = Zero
    /\ I_tilde = Zero /\ error_estimate = Plain(Zero)

NextIntegrate ==
    \/ GKI_Evaluate
    \/ GKI_Integrate
    \/ GKI_Error

SpecIntegrate == InitIntegrate /\ [][NextIntegrate]_vars

\* ------------------------------------------------------------------ claims
\* quantities as the specification states them
SpecL(nn) == -((-(3 * nn)) \div 2) + 1
SpecKept(nn) == (3 * nn) \div 2
Entered == pc \in {"rk_forward", "rk_backward", "done", "gk_scheme"}
LengthsMatch == ALen(a0) = SpecL(n) /\ ALen(b0) = SpecL(n)

\* C1: for n >= 1 and inputs of length ceil(3n/2)+1, the first floor(3n/2)+1 entries
\* of a and b equal those of alpha0 and beta0 at every point after the initial copy
\* (so also in the returned arrays), and no write of the backward pass or of the
\* final step lands on one of them.
C1_PrefixPreserved ==
    (Entered /\ n >= 1 /\ LengthsMatch) =>
        \A i \in 0 .. SpecKept(n) :
            /\ a[i] = a0[i]
            /\ b[i] = b0[i]
            /\ i \notin aWr \cup bWr
C1_Witness ==
    /\ pc = "done" /\ n = 4
    /\ aWr = {7, 8} /\ bWr = {7, 8}
    /\ a0[SpecKept(n)] # Zero

\* C2: a call whose alpha0 or beta0 has a length other than ceil(3n/2)+1 ends with
\* the assertion failure, and nothing has been allocated or computed.
C2_LengthMismatchRejected ==
    (pc # "rk_enter" /\ pc # "gk_enter" /\ ~LengthsMatch) =>
        /\ pc = "raised"
        /\ err = "AssertionError"
        /\ a = <<>> /\ b = <<>> /\ s = <<>> /\ t = <<>>
C2_Witness ==
    /\ pc = "raised" /\ err = "AssertionError"
    /\ n = 3
    /\ ALen(a0) = SpecL(n)
    /\ ALen(b0) = SpecL(n) + 1

\* C7: a call with n <= 0 is rejected at the precondition check (the assertions),
\* whatever the input arrays are, and not at a later array access.
C7_NonPositiveOrderRejectedByPrecondition ==
    (entry = "_r_kronrod" /\ n <= 0 /\ pc # "rk_enter") =>
        (pc = "raised" /\ err = "AssertionError")

\* C9: the in-place sequential form of one iteration: the k indices one at a time
\* in the stated order, a running sum, each s entry stored as soon as it is
\* computed.  hazard records a read of an s entry already written in the iteration.
RECURSIVE FwdInPlace(_, _, _, _, _, _, _, _, _, _)
FwdInPlace(ks, i, ss, acc, wrote, aa, bb, tt, mm, nn) ==
    IF i > Len(ks) THEN [s |-> ss, hazard |-> FALSE]
    ELSE LET k == ks[i]
             term == FwdTerm(k, aa, bb, ss, tt, mm, nn)
             sum == IF i = 1 THEN term ELSE Add(acc, term)
             rest == FwdInPlace(ks, i + 1, Put(ss, k + 1, sum), sum, wrote \cup {k + 1},
                                aa, bb, tt, mm, nn)
         IN  [s |-> rest.s, hazard |-> rest.hazard \/ {k, k + 1} \cap wrote # {}]
RECURSIVE BwdInPlace(_, _, _, _, _, _, _, _, _, _)
BwdInPlace(ks, i, ss, acc, wrote, aa, bb, tt, mm, nn) ==
    IF i > Len(ks) THEN [s |-> ss, hazard |-> FALSE]
    ELSE LET k == ks[i]
             j == nn - 1 - (mm - k)
             term == BwdTerm(k, aa, bb, ss, tt, mm, nn)
             sum == IF i = 1 THEN term ELSE Add(acc, term)
             rest == BwdInPlace(ks, i + 1, Put(ss, j + 1, sum), sum, wrote \cup {j + 1},
                                aa, bb, tt, mm, nn)
         IN  [s |-> rest.s, hazard |-> rest.hazard \/ {j + 1, j + 2} \cap wrote # {}]
FwdSequential ==
    FwdInPlace(Descending((m + 1) \div 2, 0), 1, s, Zero, {}, a, b, t, m, n)
BwdSequential ==
    BwdInPlace(Ascending(m + 1 - n, (m - 1) \div 2), 1, s, Zero, {}, a, b, t, m, n)
\* C9: every forward and every backward iteration the code takes leaves s, t, a, b
\* as the in-place sequential form does, with s and t exchanged once at its end,
\* and the sequential form never reads an s entry it has already written.
C9_InPlaceEquivalent ==
    [][ /\ (pc = "rk_forward" /\ pc' = "rk_forward") =>
              /\ ~FwdSequential.hazard
              /\ t' = FwdSequential.s
              /\ s' = t
              /\ a' = a /\ b' = b
        /\ (pc = "rk_backward" /\ pc' = "rk_backward") =>
              LET r == BwdSequential
                  j == n - 1 - (m - ((m - 1) \div 2))
                  k == (m + 1) \div 2
                  newA == Add(a[k], Div(Sub(r.s[j + 1], Mul(b[k + n + 1], r.s[j + 2])), t[j + 2]))
                  newB == Div(r.s[j + 1], r.s[j + 2])
              IN  /\ ~r.hazard
                  /\ t' = r.s
                  /\ s' = t
                  /\ a' = IF m % 2 = 0 THEN [a EXCEPT ![k + n + 1] = newA] ELSE a
                  /\ b' = IF m % 2 = 1 THEN [b EXCEPT ![k + n + 1] = newB] ELSE b
      ]_vars
\* after the backward iteration m = 3 of n = 4, whose k range is 0, 1
C9_Witness ==
    /\ pc = "rk_backward" /\ n = 4 /\ m = 4
    /\ \A i \in 1 .. 2 : IsFinite(t[i]) /\ ~IsZero(t[i])
    /\ t[1] # t[2]

\* C10: for n >= 1 and inputs of length ceil(3n/2)+1 every index used on a and b
\* lies in 0 .. 2n, every index used on s and t (the shift and j + 2 included) lies
\* in 0 .. floor(n/2)+1, no backward iteration has an empty k range, and no access
\* fails.
C10_IndicesInBounds ==
    (n >= 1 /\ LengthsMatch) =>
        /\ aIdx \cup bIdx \subseteq 0 .. 2 * n
        /\ stIdx \subseteq 0 .. (n \div 2) + 1
        /\ ~emptyK
        /\ err = "none"
C10_Witness ==
    /\ pc = "done" /\ n = 4
    /\ 2 * n \in aIdx /\ 0 \in aIdx
    /\ stIdx = 0 .. (n \div 2) + 1

\* C3: the scheme gauss_kronrod(n) returns declares the degree 2 * L - 1, where
\* L = ceil(3n/2)+1 is the number of recurrence coefficients requested.
C3_DegreeIsTwoLMinusOne ==
    (entry = "gauss_kronrod" /\ pc = "done") =>
        (length = SpecL(n) /\ degree = 2 * SpecL(n) - 1)

\* C8: the rule gauss_kronrod(n) returns has 2n+1 nodes in ascending order, and its
\* (node, weight) pairs are the pairs of the eigen-solver step, reordered.
Occurrences(ps, ws, pair) == Cardinality({i \in DOMAIN ps : <<ps[i], ws[i]>> = pair})
C8_SortedSamePairs ==
    (entry = "gauss_kronrod" /\ pc = "done") =>
        /\ DOMAIN points = 0 .. 2 * n
        /\ DOMAIN weights = 0 .. 2 * n
        /\ \A i, j \in DOMAIN points : i < j => ~Less(points[j], points[i])
        /\ \A i \in DOMAIN x :
              Occurrences(points, weights, <<x[i], w[i]>>) = Occurrences(x, w, <<x[i], w[i]>>)
C8_Witness ==
    /\ entry = "gauss_kronrod" /\ pc = "done" /\ n = 2
    /\ x = [i \in 0 .. 4 |-> IF i \in {0, 3} THEN Flt(1) ELSE IF i = 1 THEN Flt(-1) ELSE Zero]
    /\ weights[0] = Frac(2, 6)
    /\ weights[4] = Frac(1, 6)

\* C4: f is called at most once, and once the call is made it was made on the
\* mapped Kronrod sample points lo + (t + 1) / 2 * (hi - lo); fx_gl holds the n
\* samples 1, 3, ..., 2n-1 of that result, and the Gauss estimate is
\* 0.5 * alpha * sum of fx_gk[2i+1] * gl.weights[i], with no further call of f.
Evaluated == pc \in {"gki_integrate", "gki_error", "done"}
Estimated == pc \in {"gki_error", "done"}
C4_SingleSharedEvaluation ==
    /\ Len(fCalls) <= 1
    /\ Evaluated =>
          /\ Len(fCalls) = 1
          /\ DOMAIN fCalls[1] = 0 .. 2 * order
          /\ \A i \in 0 .. 2 * order :
                /\ NumEq(fCalls[1][i],
                         Add(intervals[1],
                             Mul(Mul(Add(gk.points[i], One), Half),
                                 Sub(intervals[2], intervals[1]))))
                /\ fx_gk[i] = Apply(f, fCalls[1][i])
          /\ DOMAIN fx_gl = 0 .. order - 1
          /\ \A i \in 0 .. order - 1 : fx_gl[i] = fx_gk[2 * i + 1]
    /\ Estimated =>
          val_gauss_legendr =
              Mul(Mul(Half, alpha), Dot([i \in 0 .. order - 1 |-> fx_gk[2 * i + 1]], gl.weights))
C4_Witness ==
    /\ pc = "done" /\ order = 2 /\ f = "x"
    /\ intervals = <<Zero, One>>
    /\ Len(fCalls) = 1
    /\ fx_gl = [i \in 0 .. 1 |-> IF i = 0 THEN Frac(1, 3) ELSE Frac(2, 3)]
    /\ ~IsZero(val_gauss_legendr)

\* C5: whenever I_tilde is 0 the returned error estimate is 0.
C5_ZeroErrorWhenITildeZero ==
    (pc = "done" /\ IsZero(I_tilde)) =>
        (error_estimate.base = One /\ IsZero(error_estimate.coef))

\* C6: the returned alpha of a scalar interval [lo, hi] is |hi - lo| / 2.
C6_AlphaIsHalfLength ==
    Estimated => NumEq(alpha, Mul(Half, AbsF(Sub(intervals[2], intervals[1]))))
\* C6 as amended: the returned alpha of a scalar interval [lo, hi] is its length
\* |hi - lo|; the factor 1/2 is applied in the estimates only.
C6_AlphaIsLength ==
    Estimated => NumEq(alpha, AbsF(Sub(intervals[2], intervals[1])))
C6_Witness ==
    /\ pc = "done"
    /\ intervals = <<Flt(-1), One>>
    /\ alpha = Flt(2)
====
